---- MODULE Spec2Model ----
(***************************************************************************)
(* rkyv serializer core (src/rkyv/src/ser/mod.rs) and the IndexMap and     *)
(* PrimaryMap adapters (src/rkyv/src/indexmap.rs, primarymap.rs).          *)
(*                                                                         *)
(* The trait's provided methods (pad, align, align_for, resolve_aligned,   *)
(* serialize_value, resolve_unsized_aligned, serialize_unsized_value,      *)
(* archive_root, archive_ref_root) are operators over a sink record; each  *)
(* `?` of the source is an explicit test of the callee's result.  The      *)
(* required methods (pos, write, seek, archive_shared), the per-type       *)
(* serialize / resolve implementations and the hash-map / vector codecs    *)
(* live outside these files and are modelled from the specification.       *)
(***************************************************************************)
EXTENDS Integers, Sequences, FiniteSets, TLC

VARIABLES
    pos,              \* Serializer::pos(): the sink's cursor
    buf,              \* the sink's bytes, buf[i + 1] is the byte at position i
    wc,               \* wc[i + 1]: how many times position i has been written
    cache,            \* shared-object cache: identity -> position
    log,              \* the steps of the operation that ran last, in order
    calls,            \* fallible sink / metadata calls made so far in the pass
    failAt,           \* the ordinal of the fallible call that fails (0: none)
    debug_assertions, \* cfg(debug_assertions) of the build
    ret,              \* the last operation, its argument and its result
    nops,             \* operations run in this pass
    imap,             \* the IndexMap being archived: sequence of <<key, value>>
    iarch,            \* its archived hash map
    iout,             \* the IndexMap deserialize returned
    pmap,             \* the PrimaryMap being archived: its elems
    parch,            \* its archived vector
    pout,             \* the PrimaryMap deserialize returned
    phase             \* adapters: "build", "archived", "done"

sinkVars == <<pos, buf, wc, cache, log, calls, failAt, debug_assertions, ret, nops>>
imapVars == <<imap, iarch, iout>>
pmapVars == <<pmap, parch, pout>>
vars == <<sinkVars, imapVars, pmapVars, phase>>

(***************************************************************************)
(* Bounds of the model.                                                    *)
(***************************************************************************)
MaxOps == 2       \* operations per pass
MaxFail == 11     \* the failing call is among the first MaxFail (or none)
MaxPad == 2       \* argument of a direct pad call goes up to 16 + MaxPad
MaxDisp == 3      \* relocation displacements tried
MaxLen == 3       \* entries of an adapter's source container

ZEROES_LEN == 16

Min(a, b) == IF a < b THEN a ELSE b
Max(a, b) == IF a > b THEN a ELSE b

\* x & y on naturals
RECURSIVE BitAnd(_, _)
BitAnd(x, y) ==
    IF x = 0 \/ y = 0 THEN 0
    ELSE (x % 2) * (y % 2) + 2 * BitAnd(x \div 2, y \div 2)

(***************************************************************************)
(* Results and the step log.                                               *)
(***************************************************************************)
Ok(s, v) == [s |-> s, err |-> "ok", val |-> v]
Err(s, e) == [s |-> s, err |-> e, val |-> 0]

\* the `?` of the source: an error of r is returned at once, else k goes on
\* with r's value
Try(r, k(_)) == CHOOSE y \in {IF x.err # "ok" THEN x ELSE k(x) : x \in {r}} : TRUE

Ev(k, v, at, n, b) == [k |-> k, v |-> v, at |-> at, n |-> n, b |-> b]
Note(s, e) == [s EXCEPT !.log = Append(@, e)]

\* the call numbered failAt is the one the medium rejects
Fails(s) == failAt # 0 /\ s.calls + 1 = failAt
Tick(s) == [s EXCEPT !.calls = @ + 1]

(***************************************************************************)
(* The byte sink: a seekable buffer.  A write stores at the cursor and     *)
(* advances it; positions a forward seek skipped hold 0 with wc 0 until    *)
(* they are written.                                                       *)
(***************************************************************************)
Store(b, p, bytes) ==
    [i \in 1..Max(Len(b), p + Len(bytes)) |->
        IF i > p /\ i <= p + Len(bytes) THEN bytes[i - p]
        ELSE IF i <= Len(b) THEN b[i] ELSE 0]

Count(w, p, n) ==
    [i \in 1..Max(Len(w), p + n) |->
        (IF i <= Len(w) THEN w[i] ELSE 0) + (IF i > p /\ i <= p + n THEN 1 ELSE 0)]

write(s, bytes) ==
    IF Fails(s)
    THEN Err(Tick(Note(s, Ev("fail", "IOFailure", s.pos, Len(bytes), <<>>))), "IOFailure")
    ELSE Ok(Tick(Note([s EXCEPT !.pos = s.pos + Len(bytes),
                                !.buf = Store(s.buf, s.pos, bytes),
                                !.wc = Count(s.wc, s.pos, Len(bytes))],
                      Ev("write", "", s.pos, Len(bytes), bytes))), 0)

seek(s, p) ==
    IF Fails(s)
    THEN Err(Tick(Note(s, Ev("fail", "IOFailure", p, 0, <<>>))), "IOFailure")
    ELSE Ok(Tick(Note([s EXCEPT !.pos = p], Ev("seek", "", p, 0, <<>>))), 0)

(***************************************************************************)
(* pad, align, align_for                                                   *)
(***************************************************************************)
ZEROES(len) == [i \in 1..len |-> 0]

\* a faulty variant: every write is a whole block of zeroes
RECURSIVE pad_whole_blocks(_, _)
pad_whole_blocks(s, padding) ==
    IF padding > 0
    THEN Try(write(s, ZEROES(ZEROES_LEN)),
             LAMBDA w : pad_whole_blocks(w.s, padding - Min(ZEROES_LEN, padding)))
    ELSE Ok(s, 0)

RECURSIVE pad(_, _)
pad(s, padding) ==
    IF padding > 0
    THEN LET len == Min(ZEROES_LEN, padding)
         IN  Try(write(s, ZEROES(len)), LAMBDA w : pad(w.s, padding - len))
    ELSE Ok(s, 0)

\* a faulty variant: pads by the offset instead of what is missing to the boundary
align_pads_offset(s, a) ==
    IF BitAnd(s.pos, a - 1) # 0
    THEN Try(pad(Note(s, Ev("align", "", s.pos, a, <<>>)), BitAnd(s.pos, a - 1)),
             LAMBDA p : Ok(p.s, p.s.pos))
    ELSE Ok(Note(s, Ev("align", "", s.pos, a, <<>>)), s.pos)

align(s, a) ==
    LET s0 == Note(s, Ev("align", "", s.pos, a, <<>>))
        offset == BitAnd(s.pos, a - 1)
    IN  IF debug_assertions /\ BitAnd(a, a - 1) # 0
        THEN Err(Note(s, Ev("panic", "align", s.pos, a, <<>>)), "panic")
        ELSE IF offset # 0
             THEN Try(pad(s0, a - offset), LAMBDA p : Ok(p.s, p.s.pos))
             ELSE Ok(s0, s0.pos)

align_for(s, alignment) == align(s, alignment)

(***************************************************************************)
(* Relative pointers: the offset target - base as a 32-bit two's           *)
(* complement little-endian integer.                                       *)
(***************************************************************************)
Byte(x, i) == (x \div (256 ^ i)) % 256

LE32(x) ==
    IF x >= 0
    THEN [i \in 1..4 |-> Byte(x, i - 1)]
    ELSE [i \in 1..4 |-> 255 - Byte((0 - x) - 1, i - 1)]

Magnitude(b) == b[1] + 256 * b[2] + 65536 * b[3] + 16777216 * (b[4] % 128)

FromLE32(b) ==
    IF b[4] < 128
    THEN Magnitude(b)
    ELSE 0 - (1 + Magnitude([i \in 1..4 |-> 255 - b[i]]))

RelPtrEncode(from, to) == LE32(to - from)
RelPtrDecode(at, bytes) == at + FromLE32(bytes)

(***************************************************************************)
(* The value types of the model.  "byte" is a primitive; "half" a 2-byte   *)
(* primitive; "str" owns an out-of-line payload of three bytes; "node"     *)
(* owns two out-of-line values, a "str" and a "byte"; "slice" is unsized   *)
(* (two 2-byte elements) and is only reachable through a relative pointer. *)
(***************************************************************************)
Values == {"byte", "half", "str", "node"}
UnsizedValues == Values \cup {"slice"}

ArchivedSize(v) ==
    CASE v = "byte" -> 1
      [] v = "half" -> 2
      [] v = "str" -> 8
      [] v = "node" -> 8

ArchivedAlign(v) ==
    CASE v = "byte" -> 1
      [] v = "half" -> 2
      [] v = "str" -> 4
      [] v = "node" -> 4

Raw(bytes) == [kind |-> "raw", v |-> "", bytes |-> bytes]
Child(v) == [kind |-> "value", v |-> v, bytes |-> <<>>]

\* what phase 1 of a value writes out of line, in order
Deps(v) ==
    CASE v = "str" -> <<Raw(<<97, 98, 99>>)>>
      [] v = "node" -> <<Child("str"), Child("byte")>>
      [] OTHER -> <<>>

\* Archive::resolve: the archived bytes of v placed at p; pure
resolve(v, p, resolver) ==
    CASE v = "byte" -> <<7>>
      [] v = "half" -> <<1, 2>>
      [] v = "str" -> RelPtrEncode(p, resolver[1]) \o LE32(3)
      [] v = "node" -> RelPtrEncode(p, resolver[1]) \o RelPtrEncode(p, resolver[2])

\* ArchivePointee metadata of the pointee, as archived bytes
Metadata(v) == IF v = "slice" THEN LE32(2) ELSE <<>>

RelPtrSize(v) == 4 + Len(Metadata(v))
RelPtrAlign(v) == 4

\* ArchiveUnsized::resolve_unsized: the relative pointer record placed at from
resolve_unsized(v, from, to, metadata_resolver) ==
    RelPtrEncode(from, to) \o metadata_resolver

(***************************************************************************)
(* resolve_aligned, serialize_value and phase 1 of a value                 *)
(***************************************************************************)
Panic(s, what) == Err(Note(s, Ev("panic", what, s.pos, 0, <<>>)), "panic")

\* a faulty variant: returns where the header ends instead of where it starts
resolve_aligned_end(s, value, resolver) ==
    Try(write(Note(s, Ev("resolve", value, s.pos, ArchivedSize(value), resolver)),
              SubSeq(resolve(value, s.pos, resolver), 1, ArchivedSize(value))),
        LAMBDA w : Ok(w.s, w.s.pos))

\* a faulty variant: the alignment check runs after the header has been written
resolve_aligned_checks_late(s, value, resolver) ==
    LET p == s.pos
    IN  Try(write(Note(s, Ev("resolve", value, p, ArchivedSize(value), resolver)),
                  SubSeq(resolve(value, p, resolver), 1, ArchivedSize(value))),
            LAMBDA w : IF debug_assertions /\ BitAnd(p, ArchivedAlign(value) - 1) # 0
                       THEN Panic(w.s, "resolve_aligned")
                       ELSE Ok(w.s, p))

resolve_aligned(s, value, resolver) ==
    LET p == s.pos
    IN  IF debug_assertions /\ BitAnd(p, ArchivedAlign(value) - 1) # 0
        THEN Panic(s, "resolve_aligned")
        ELSE LET archived == resolve(value, p, resolver)
                 len == ArchivedSize(value)
             IN  Try(write(Note(s, Ev("resolve", value, p, len, resolver)),
                           SubSeq(archived, 1, len)),
                     LAMBDA w : Ok(w.s, p))

RECURSIVE serialize_value(_, _)
RECURSIVE SerializeDeps(_, _, _, _)

\* Serialize::serialize of a value: its dependents in order, then the
\* resolver holding where each one landed
serialize(s, value) ==
    Try(SerializeDeps(Note(s, Ev("serialize", value, s.pos, 0, <<>>)),
                      Deps(value), 1, <<>>),
        LAMBDA r : Ok(Note(r.s, Ev("serialize_ret", value, r.s.pos, 0, r.val)), r.val))

SerializeDeps(s, deps, i, acc) ==
    IF i > Len(deps) THEN Ok(s, acc)
    ELSE LET d == deps[i]
         IN  Try(IF d.kind = "raw"
                 THEN Try(write(s, d.bytes), LAMBDA w : Ok(w.s, s.pos))
                 ELSE serialize_value(s, d.v),
                 LAMBDA r : SerializeDeps(r.s, deps, i + 1, Append(acc, r.val)))

\* a faulty variant: the header is written without aligning first
serialize_value_unaligned(s, value) ==
    Try(serialize(s, value), LAMBDA r :
        resolve_aligned(r.s, value, r.val))

\* a faulty variant: the header is resolved and written before phase 1 of the
\* value has run, from the positions the dependents are expected to land at
serialize_value_header_first(s, value) ==
    Try(align_for(s, ArchivedAlign(value)), LAMBDA a :
    Try(resolve_aligned(a.s, value,
                        [i \in 1..Len(Deps(value)) |-> a.s.pos + ArchivedSize(value)]),
        LAMBDA h :
    Try(serialize(h.s, value), LAMBDA r : Ok(r.s, h.val))))

serialize_value(s, value) ==
    Try(serialize(s, value), LAMBDA r :
    Try(align_for(r.s, ArchivedAlign(value)), LAMBDA a :
        resolve_aligned(a.s, value, r.val)))

(***************************************************************************)
(* resolve_unsized_aligned, serialize_unsized_value                        *)
(***************************************************************************)
\* SerializeUnsized::serialize_unsized: writes the pointee, returns where
serialize_unsized(s, value) ==
    LET s0 == Note(s, Ev("serialize_unsized", value, s.pos, 0, <<>>))
    IN  Try(IF value = "slice"
            THEN Try(align(s0, 2), LAMBDA a :
                 Try(write(a.s, <<1, 0, 2, 0>>), LAMBDA w : Ok(w.s, a.val)))
            ELSE serialize_value(s0, value),
            LAMBDA r : Ok(Note(r.s, Ev("serialize_unsized_ret", value, r.val, 0, <<>>)),
                          r.val))

\* SerializeUnsized::serialize_metadata: fallible, writes nothing
serialize_metadata(s, value) ==
    IF Fails(s)
    THEN Err(Tick(Note(s, Ev("fail", "UnsizedMetadataFailure", s.pos, 0, <<>>))),
             "UnsizedMetadataFailure")
    ELSE Ok(Tick(Note(s, Ev("serialize_metadata", value, s.pos, 0, Metadata(value)))),
            Metadata(value))

\* a faulty variant: base and target swapped when the pointer is resolved
resolve_unsized_aligned_swapped(s, value, to, metadata_resolver) ==
    Try(write(Note(s, Ev("resolve_unsized", value, s.pos, to, metadata_resolver)),
              SubSeq(resolve_unsized(value, to, s.pos, metadata_resolver),
                     1, RelPtrSize(value))),
        LAMBDA w : Ok(w.s, s.pos))

resolve_unsized_aligned(s, value, to, metadata_resolver) ==
    LET from == s.pos
    IN  IF debug_assertions /\ BitAnd(from, RelPtrAlign(value) - 1) # 0
        THEN Panic(s, "resolve_unsized_aligned")
        ELSE LET rel_ptr == resolve_unsized(value, from, to, metadata_resolver)
                 len == RelPtrSize(value)
             IN  Try(write(Note(s, Ev("resolve_unsized", value, from, to, metadata_resolver)),
                           SubSeq(rel_ptr, 1, len)),
                     LAMBDA w : Ok(w.s, from))

\* a faulty variant: a failed align is ignored and the record is written all the same
serialize_unsized_value_ignores_align(s, value) ==
    Try(serialize_unsized(s, value), LAMBDA t :
    Try(serialize_metadata(t.s, value), LAMBDA m :
    Try(Ok(align_for(m.s, RelPtrAlign(value)).s, 0), LAMBDA a :
        resolve_unsized_aligned(a.s, value, t.val, m.val))))

\* a faulty variant: the relative pointer record is written first, pointing at
\* the payload that follows it
serialize_unsized_value_record_first(s, value) ==
    Try(serialize_metadata(s, value), LAMBDA m :
    Try(align_for(m.s, RelPtrAlign(value)), LAMBDA a :
    Try(resolve_unsized_aligned(a.s, value, a.s.pos + RelPtrSize(value), m.val),
        LAMBDA h :
    Try(serialize_unsized(h.s, value), LAMBDA t : Ok(t.s, h.val)))))

\* a faulty variant: the metadata is serialized before the payload is written
serialize_unsized_value_metadata_first(s, value) ==
    Try(serialize_metadata(s, value), LAMBDA m :
    Try(serialize_unsized(m.s, value), LAMBDA t :
    Try(align_for(t.s, RelPtrAlign(value)), LAMBDA a :
        resolve_unsized_aligned(a.s, value, t.val, m.val))))

serialize_unsized_value(s, value) ==
    Try(serialize_unsized(s, value), LAMBDA t :
    Try(serialize_metadata(t.s, value), LAMBDA m :
    Try(align_for(m.s, RelPtrAlign(value)), LAMBDA a :
        resolve_unsized_aligned(a.s, value, t.val, m.val))))

(***************************************************************************)
(* SeekSerializer: archive_root, archive_ref_root                          *)
(***************************************************************************)
\* a faulty variant: the header is written where phase 1 stopped, with no seek back
archive_root_no_seek_back(s, value) ==
    Try(align_for(s, ArchivedAlign(value)), LAMBDA a :
    LET p == a.s.pos
    IN  Try(seek(a.s, p + ArchivedSize(value)), LAMBDA f :
        Try(serialize(f.s, value), LAMBDA r :
        Try(resolve_aligned(r.s, value, r.val), LAMBDA h :
            Ok(h.s, p)))))

\* a faulty variant: reserves the header's alignment instead of its size
archive_root_short_reserve(s, value) ==
    Try(align_for(s, ArchivedAlign(value)), LAMBDA a :
    LET p == a.s.pos
    IN  Try(seek(a.s, p + ArchivedAlign(value)), LAMBDA f :
        Try(serialize(f.s, value), LAMBDA r :
        Try(seek(r.s, p), LAMBDA b :
        Try(resolve_aligned(b.s, value, r.val), LAMBDA h :
            Ok(h.s, p))))))

archive_root(s, value) ==
    Try(align_for(s, ArchivedAlign(value)), LAMBDA a :
    LET p == a.s.pos
    IN  Try(seek(a.s, p + ArchivedSize(value)), LAMBDA f :
        Try(serialize(f.s, value), LAMBDA r :
        Try(seek(r.s, p), LAMBDA b :
        Try(resolve_aligned(b.s, value, r.val), LAMBDA h :
            Ok(h.s, p))))))

archive_ref_root(s, value) ==
    Try(align_for(s, RelPtrAlign(value)), LAMBDA a :
    LET p == a.s.pos
    IN  Try(seek(a.s, p + RelPtrSize(value)), LAMBDA f :
        Try(serialize_unsized(f.s, value), LAMBDA t :
        Try(serialize_metadata(t.s, value), LAMBDA m :
        Try(seek(m.s, p), LAMBDA b :
            resolve_unsized_aligned(b.s, value, t.val, m.val))))))

(***************************************************************************)
(* SharedSerializer::archive_shared, keyed by the source object's identity *)
(***************************************************************************)
ObjIds == {"a1", "a2", "b"}

\* the value each shared object holds: a1 and a2 are distinct objects with
\* the same contents
Content(id) == IF id = "b" THEN "byte" ELSE "str"

\* a faulty variant: no lookup, every call archives again
archive_shared_no_lookup(s, id) ==
    Try(serialize_unsized(Note(s, Ev("shared_miss", id, s.pos, 0, <<>>)), Content(id)),
        LAMBDA r : Ok([r.s EXCEPT !.cache = (id :> r.val) @@ @], r.val))

\* a faulty variant: an object with the same contents as a cached one is taken for it
archive_shared_by_content(s, id) ==
    LET same == {j \in DOMAIN s.cache : Content(j) = Content(id)}
    IN  IF same # {}
        THEN LET j == CHOOSE x \in same : TRUE
             IN  Ok([Note(s, Ev("shared_hit", id, s.cache[j], 0, <<>>))
                        EXCEPT !.cache = (id :> s.cache[j]) @@ @],
                    s.cache[j])
        ELSE Try(serialize_unsized(Note(s, Ev("shared_miss", id, s.pos, 0, <<>>)),
                                   Content(id)),
                 LAMBDA r : Ok([r.s EXCEPT !.cache = (id :> r.val) @@ @], r.val))

archive_shared(s, id) ==
    IF id \in DOMAIN s.cache
    THEN Ok(Note(s, Ev("shared_hit", id, s.cache[id], 0, <<>>)), s.cache[id])
    ELSE Try(serialize_unsized(Note(s, Ev("shared_miss", id, s.pos, 0, <<>>)),
                               Content(id)),
             LAMBDA r : Ok([r.s EXCEPT !.cache = (id :> r.val) @@ @], r.val))

(***************************************************************************)
(* One pass over one sink: the caller's operations.  A failed operation    *)
(* aborts the pass.                                                        *)
(***************************************************************************)
Cur == [pos |-> pos, buf |-> buf, wc |-> wc, cache |-> cache,
        log |-> <<>>, calls |-> calls]

Done(result, name, arg, n) ==
    \E r \in {result} :
    /\ pos' = r.s.pos
    /\ buf' = r.s.buf
    /\ wc' = r.s.wc
    /\ cache' = r.s.cache
    /\ log' = r.s.log
    /\ calls' = r.s.calls
    /\ ret' = [op |-> name, arg |-> arg, n |-> n, err |-> r.err, val |-> r.val,
               start |-> pos]
    /\ nops' = nops + 1
    /\ UNCHANGED <<failAt, debug_assertions, imapVars, pmapVars, phase>>

Running == ret.err = "ok" /\ nops < MaxOps

PadArgs == {0, 1, ZEROES_LEN + MaxPad}
Boundaries == {1, 2, 4, 8}

Write == Running /\ Done(write(Cur, <<255>>), "write", "", 1)

Pad == \E n \in PadArgs : Running /\ Done(pad(Cur, n), "pad", "", n)

Align == \E b \in Boundaries : Running /\ Done(align(Cur, b), "align", "", b)

SerializeValue ==
    \E v \in Values : Running /\ Done(serialize_value(Cur, v), "serialize_value", v, 0)

SerializeUnsizedValue ==
    \E v \in UnsizedValues :
        Running /\ Done(serialize_unsized_value(Cur, v), "serialize_unsized_value", v, 0)

ArchiveRoot ==
    \E v \in Values : Running /\ Done(archive_root(Cur, v), "archive_root", v, 0)

ArchiveRefRoot ==
    \E v \in UnsizedValues :
        Running /\ Done(archive_ref_root(Cur, v), "archive_ref_root", v, 0)

ArchiveShared ==
    \E id \in ObjIds : Running /\ Done(archive_shared(Cur, id), "archive_shared", id, 0)

\* the unsafe entry points called directly, whatever the cursor's alignment
ResolveAligned ==
    \E v \in {"byte", "half"} :
        Running /\ Done(resolve_aligned(Cur, v, <<>>), "resolve_aligned", v, 0)

ResolveUnsizedAligned ==
    Running /\ Len(buf) > 0
    /\ Done(resolve_unsized_aligned(Cur, "byte", 0, <<>>), "resolve_unsized_aligned", "byte", 0)

InitSink ==
    /\ pos = 0
    /\ buf = <<>>
    /\ wc = <<>>
    /\ cache = <<>>
    /\ log = <<>>
    /\ calls = 0
    /\ ret = [op |-> "new", arg |-> "", n |-> 0, err |-> "ok", val |-> 0, start |-> 0]
    /\ nops = 0

InitAdapters ==
    /\ imap = <<>>
    /\ iarch = <<>>
    /\ iout = <<>>
    /\ pmap = <<>>
    /\ parch = <<>>
    /\ pout = <<>>
    /\ phase = "build"

Init ==
    /\ InitSink
    /\ failAt \in 0..MaxFail
    /\ debug_assertions \in BOOLEAN
    /\ InitAdapters

Next ==
    \/ Write
    \/ Pad
    \/ Align
    \/ SerializeValue
    \/ SerializeUnsizedValue
    \/ ArchiveRoot
    \/ ArchiveRefRoot
    \/ ArchiveShared
    \/ ResolveAligned
    \/ ResolveUnsizedAligned

Spec == Init /\ [][Next]_vars

(***************************************************************************)
(* The IndexMap adapter.  An IndexMap is the sequence of its <<key, value>>*)
(* entries in insertion order.  The archived hash map keeps the entries in *)
(* an order of its own, whichever the codec's hashing gives.               *)
(***************************************************************************)
Keys == {"k1", "k2", "k3"}
Vals == {10, 20}

Range(f) == {f[i] : i \in DOMAIN f}
KeysOf(m) == {m[i][1] : i \in DOMAIN m}

\* IndexMap::insert: a present key keeps its place and takes the new value
IndexMapInsertEntry(m, k, v) ==
    IF k \in KeysOf(m)
    THEN [i \in DOMAIN m |-> IF m[i][1] = k THEN <<k, v>> ELSE m[i]]
    ELSE Append(m, <<k, v>>)

Orders(n) == {f \in [1..n -> 1..n] : Range(f) = 1..n}

\* ArchivedHashMap::serialize_from_iter: stores len items of the iterator,
\* item order[i] in slot i
serialize_from_iter(items, len, order) ==
    [entries |-> [i \in 1..Min(len, Len(items)) |-> items[order[i]]]]

\* ArchivedHashMapResolver::resolve_from_len
resolve_from_len(resolver, p, len) ==
    [at |-> p, len |-> len, entries |-> resolver.entries]

\* ArchivedHashMap::iter: the len entries, in slot order
ArchivedIter(a) == SubSeq(a.entries, 1, Min(a.len, Len(a.entries)))

\* a variant: the entries are stored in insertion order whatever order the
\* hash layout asks for
IndexMap_serialize_in_order(self, order) ==
    serialize_from_iter(self, Len(self), [i \in 1..Len(self) |-> i])

IndexMap_serialize(self, order) ==
    serialize_from_iter(self, Len(self), order)

\* a faulty variant: the length handed to the resolver is one short
IndexMap_resolve_short(self, p, resolver) ==
    resolve_from_len(resolver, p, Len(self) - 1)

IndexMap_resolve(self, p, resolver) ==
    resolve_from_len(resolver, p, Len(self))

RECURSIVE InsertAll(_, _, _)
InsertAll(result, it, i) ==
    IF i > Len(it) THEN result
    ELSE InsertAll(IndexMapInsertEntry(result, it[i][1], it[i][2]), it, i + 1)

IndexMap_deserialize(self) == InsertAll(<<>>, ArchivedIter(self), 1)

IndexMapInsert ==
    /\ phase = "build"
    /\ \E k \in Keys, v \in Vals :
        /\ Len(IndexMapInsertEntry(imap, k, v)) <= MaxLen
        /\ imap' = IndexMapInsertEntry(imap, k, v)
    /\ UNCHANGED <<sinkVars, pmapVars, iarch, iout, phase>>

IndexMapArchive ==
    /\ phase = "build"
    /\ \E order \in Orders(Len(imap)) :
        iarch' = IndexMap_resolve(imap, 0, IndexMap_serialize(imap, order))
    /\ phase' = "archived"
    /\ UNCHANGED <<sinkVars, pmapVars, imap, iout>>

IndexMapDeserialize ==
    /\ phase = "archived"
    /\ iout' = IndexMap_deserialize(iarch)
    /\ phase' = "done"
    /\ UNCHANGED <<sinkVars, pmapVars, imap, iarch>>

InitQuiet ==
    /\ InitSink
    /\ failAt = 0
    /\ debug_assertions = FALSE
    /\ InitAdapters

NextIndexMap ==
    \/ IndexMapInsert
    \/ IndexMapArchive
    \/ IndexMapDeserialize

SpecIndexMap == InitQuiet /\ [][NextIndexMap]_vars

(***************************************************************************)
(* The PrimaryMap adapter.  A PrimaryMap is its elems vector; key i is     *)
(* the index i.  It is archived as that vector.                            *)
(***************************************************************************)
Elems == {10, 20, 30}

\* Vec::serialize: the elements written out in order
Vec_serialize(elems) == [data |-> elems]

\* Vec::resolve
Vec_resolve(elems, p, resolver) ==
    [at |-> p, len |-> Len(elems), data |-> resolver.data]

\* ArchivedVec::deserialize: the len elements, in order
Vec_deserialize(a) == SubSeq(a.data, 1, Min(a.len, Len(a.data)))

PrimaryMap_serialize(self) == Vec_serialize(self)

PrimaryMap_resolve(self, p, resolver) == Vec_resolve(self, p, resolver)

\* a faulty variant: the elements come back in reverse
PrimaryMap_deserialize_reversed(self) ==
    [i \in 1..Len(Vec_deserialize(self)) |->
        Vec_deserialize(self)[Len(Vec_deserialize(self)) + 1 - i]]

PrimaryMap_deserialize(self) == Vec_deserialize(self)

\* PrimaryMap::push: the new element takes the next index
PrimaryMapPush ==
    /\ phase = "build"
    /\ Len(pmap) < MaxLen
    /\ \E e \in Elems : pmap' = Append(pmap, e)
    /\ UNCHANGED <<sinkVars, imapVars, parch, pout, phase>>

PrimaryMapArchive ==
    /\ phase = "build"
    /\ parch' = PrimaryMap_resolve(pmap, 0, PrimaryMap_serialize(pmap))
    /\ phase' = "archived"
    /\ UNCHANGED <<sinkVars, imapVars, pmap, pout>>

PrimaryMapDeserialize ==
    /\ phase = "archived"
    /\ pout' = PrimaryMap_deserialize(parch)
    /\ phase' = "done"
    /\ UNCHANGED <<sinkVars, imapVars, pmap, parch>>

NextPrimaryMap ==
    \/ PrimaryMapPush
    \/ PrimaryMapArchive
    \/ PrimaryMapDeserialize

SpecPrimaryMap == InitQuiet /\ [][NextPrimaryMap]_vars

(***************************************************************************)
(* Reading the step log of the operation that ran last.                    *)
(***************************************************************************)
TopOps == {"serialize_value", "serialize_unsized_value", "archive_root", "archive_ref_root"}

StepsIn(l, k) == {j \in 1..Len(l) : l[j].k = k}
FirstIn(l, k) ==
    IF StepsIn(l, k) = {} THEN 0
    ELSE CHOOSE j \in StepsIn(l, k) : \A i \in StepsIn(l, k) : j <= i
LastIn(l, k) ==
    IF StepsIn(l, k) = {} THEN 0
    ELSE CHOOSE j \in StepsIn(l, k) : \A i \in StepsIn(l, k) : j >= i
Steps(k) == StepsIn(log, k)
FirstIdx(k) == FirstIn(log, k)
LastIdx(k) == LastIn(log, k)

\* where the cursor stands once step e is over
EndOf(e) == IF e.k = "write" THEN e.at + e.n ELSE e.at

HeaderAlign(name, v) ==
    IF name \in {"serialize_value", "archive_root"} THEN ArchivedAlign(v) ELSE RelPtrAlign(v)
HeaderSize(name, v) ==
    IF name \in {"serialize_value", "archive_root"} THEN ArchivedSize(v) ELSE RelPtrSize(v)

Succeeded(name) == ret.op = name /\ ret.err = "ok"

(***************************************************************************)
(* C1: a successful serialize_value(value) runs serialize first, then      *)
(* aligns for the archived type, then calls resolve with the position the  *)
(* cursor has at that moment and the resolver serialize returned, appends  *)
(* exactly size_of(Archived) bytes equal to that resolve result at that    *)
(* position and returns it; afterwards the cursor is that position plus    *)
(* size_of(Archived).                                                      *)
(***************************************************************************)
C1_SerializeValue ==
    Succeeded("serialize_value") =>
        LET v == ret.arg
            p == ret.val
            n == Len(log)
            i == LastIdx("serialize_ret")
        IN  /\ log[1].k = "serialize" /\ log[1].v = v /\ log[1].at = ret.start
            /\ i > 1 /\ n >= i + 3
            /\ log[i].v = v
            /\ log[i + 1].k = "align"
            /\ log[i + 1].n = ArchivedAlign(v)
            /\ log[i + 1].at = log[i].at
            /\ \A j \in (i + 2)..(n - 2) : log[j].k = "write"
            /\ log[n - 1].k = "resolve"
            /\ log[n - 1].v = v
            /\ log[n - 1].b = log[i].b
            /\ log[n - 1].at = EndOf(log[n - 2])
            /\ log[n - 1].at = p
            /\ log[n].k = "write"
            /\ log[n].at = p
            /\ log[n].n = ArchivedSize(v)
            /\ log[n].b = resolve(v, p, log[i].b)
            /\ Len(buf) >= p + ArchivedSize(v)
            /\ SubSeq(buf, p + 1, p + ArchivedSize(v)) = resolve(v, p, log[i].b)
            /\ pos = p + ArchivedSize(v)

\* a nested value archived from a misaligned cursor
C1_Witness ==
    /\ Succeeded("serialize_value")
    /\ ret.arg = "node"
    /\ ret.start = 1
    /\ ret.val > ret.start

(***************************************************************************)
(* C2: archive_root on a sink at position 0 returns 0 and leaves at        *)
(* [0, N) exactly the bytes resolve(0, resolver) gives for the resolver    *)
(* phase 1 returned, N the size of the archived root.                      *)
(***************************************************************************)
C2_RootTransparency ==
    (Succeeded("archive_root") /\ ret.start = 0) =>
        LET v == ret.arg
            i == LastIdx("serialize_ret")
        IN  /\ ret.val = 0
            /\ i > 0
            /\ log[i].v = v
            /\ Len(buf) >= ArchivedSize(v)
            /\ SubSeq(buf, 1, ArchivedSize(v)) = resolve(v, 0, log[i].b)

\* a root with dependents behind its header
C2_Witness ==
    /\ Succeeded("archive_root")
    /\ ret.start = 0
    /\ ret.arg = "node"
    /\ Len(buf) > ArchivedSize("node")

(***************************************************************************)
(* C3: in a successful archive_root / archive_ref_root, with p the aligned *)
(* position taken first and H the header's size, the forward seek goes to  *)
(* p + H, every byte phase 1 writes lies at p + H or beyond, the header    *)
(* write is the last step and covers exactly [p, p + H), no other write of *)
(* the call overlaps it, and no position below the buffer's end is left    *)
(* never written.                                                          *)
(***************************************************************************)
C3_ReservedHeader ==
    (ret.op \in {"archive_root", "archive_ref_root"} /\ ret.err = "ok") =>
        LET p == ret.val
            H == HeaderSize(ret.op, ret.arg)
            n == Len(log)
            fwd == FirstIdx("seek")
            back == LastIdx("seek")
        IN  /\ p >= ret.start
            /\ p % HeaderAlign(ret.op, ret.arg) = 0
            /\ 0 < fwd /\ fwd < back /\ back < n
            /\ log[fwd].at = p + H
            /\ log[back].at = p
            /\ \A j \in (fwd + 1)..(back - 1) : log[j].k = "write" => log[j].at >= p + H
            /\ log[n].k = "write" /\ log[n].at = p /\ log[n].n = H
            /\ \A j \in 1..(n - 1) :
                log[j].k = "write" => (log[j].at + log[j].n <= p \/ log[j].at >= p + H)
            /\ Len(wc) = Len(buf)
            /\ \A i \in 1..Len(wc) : wc[i] >= 1

\* a root from a misaligned cursor, with dependents written behind the header
C3_Witness ==
    /\ Succeeded("archive_root")
    /\ ret.arg = "str"
    /\ ret.start = 1
    /\ Len(buf) > ret.val + ArchivedSize("str")

(***************************************************************************)
(* C4: in every call of serialize_value, serialize_unsized_value,          *)
(* archive_root or archive_ref_root, every header (archived value or       *)
(* relative pointer record, nested ones included) is resolved and written  *)
(* at a multiple of its type's alignment, the debug assertion never trips, *)
(* and the returned position is aligned for the header.                    *)
(***************************************************************************)
C4_Alignment ==
    ret.op \in TopOps =>
        /\ \A j \in 1..Len(log) :
            /\ log[j].k # "panic"
            /\ log[j].k = "resolve" =>
                /\ log[j].at % ArchivedAlign(log[j].v) = 0
                /\ log[j + 1].at = log[j].at
            /\ log[j].k = "resolve_unsized" =>
                /\ log[j].at % RelPtrAlign(log[j].v) = 0
                /\ log[j + 1].at = log[j].at
        /\ ret.err = "ok" => ret.val % HeaderAlign(ret.op, ret.arg) = 0

\* a nested value archived from a misaligned cursor in a debug build
C4_Witness ==
    /\ Succeeded("serialize_unsized_value")
    /\ debug_assertions
    /\ ret.arg = "node"
    /\ ret.start % 4 = 1

(***************************************************************************)
(* C5: the first archive_shared call for an identity archives the value    *)
(* and records exactly one cache entry identity -> position; a later call  *)
(* with that identity succeeds with the same position, adds no entry and   *)
(* leaves the sink's position and bytes unchanged; no step removes or      *)
(* changes a cache entry.                                                  *)
(***************************************************************************)
SharedStep == nops' = nops + 1 /\ ret'.op = "archive_shared"

C5_SharedSameIdentity ==
    [][/\ \A k \in DOMAIN cache : k \in DOMAIN cache' /\ cache'[k] = cache[k]
       /\ SharedStep =>
            IF ret'.arg \in DOMAIN cache
            THEN /\ ret'.err = "ok"
                 /\ ret'.val = cache[ret'.arg]
                 /\ DOMAIN cache' = DOMAIN cache
                 /\ pos' = pos
                 /\ buf' = buf
                 /\ wc' = wc
                 /\ calls' = calls
            ELSE ret'.err = "ok" =>
                    LET j == LastIn(log', "resolve")
                        size == ArchivedSize(Content(ret'.arg))
                    IN  /\ DOMAIN cache' = DOMAIN cache \cup {ret'.arg}
                        /\ cache'[ret'.arg] = ret'.val
                        /\ j > 0
                        /\ log'[j].v = Content(ret'.arg)
                        /\ log'[j].at = ret'.val
                        /\ Len(buf') >= ret'.val + size
                        /\ SubSeq(buf', ret'.val + 1, ret'.val + size) = log'[j + 1].b
      ]_vars

\* the second call for an identity the cache already holds
C5_Witness ==
    /\ Succeeded("archive_shared")
    /\ nops = 2
    /\ log[1].k = "shared_hit"
    /\ ret.val = cache[ret.arg]

(***************************************************************************)
(* C6: archive_shared keys on the object's identity, never on its          *)
(* contents: a call for an object not yet cached adds an entry of its own  *)
(* at a position no other cached object has, also when a cached object     *)
(* holds the same contents; a call for a cached object adds none and       *)
(* returns the cached position.                                            *)
(***************************************************************************)
C6_SharedDistinctIdentity ==
    [][(SharedStep /\ ret'.err = "ok") =>
            /\ Cardinality(DOMAIN cache') =
                    Cardinality(DOMAIN cache) + (IF ret'.arg \in DOMAIN cache THEN 0 ELSE 1)
            /\ ret'.arg \in DOMAIN cache'
            /\ \A j \in DOMAIN cache' \ {ret'.arg} : cache'[j] # ret'.val
            /\ ret'.arg \in DOMAIN cache => ret'.val = cache[ret'.arg]
      ]_vars

\* two distinct objects with the same contents, each archived
C6_Witness ==
    /\ {"a1", "a2"} \subseteq DOMAIN cache
    /\ Content("a1") = Content("a2")
    /\ cache["a1"] # cache["a2"]

(***************************************************************************)
(* C7: deserialize(archive(M)) of an IndexMap M has as many entries as M   *)
(* and exactly M's set of (key, value) pairs, whatever order the archived  *)
(* hash map iterates in.                                                   *)
(***************************************************************************)
C7_MapRoundTrip ==
    /\ phase \in {"archived", "done"} =>
        /\ iarch.len = Len(imap)
        /\ Range(ArchivedIter(iarch)) = Range(imap)
    /\ phase = "done" =>
        /\ Len(iout) = Len(imap)
        /\ Range(iout) = Range(imap)
        /\ Cardinality(KeysOf(iout)) = Len(iout)

\* a map of three entries that comes back in another order
C7_Witness ==
    /\ phase = "done"
    /\ Len(imap) = 3
    /\ iout # imap
    /\ Range(iout) = Range(imap)

(***************************************************************************)
(* C8: a PrimaryMap built by pushing e0 .. e(n-1), archived and read back, *)
(* has length n and element e_i at index i.                                *)
(***************************************************************************)
C8_PrimaryMapOrder ==
    phase = "done" =>
        /\ Len(pout) = Len(pmap)
        /\ \A i \in 1..Len(pmap) : pout[i] = pmap[i]

\* 10, 20, 30 pushed in turn: index 1 reads 20
C8_Witness ==
    /\ phase = "done"
    /\ pmap = <<10, 20, 30>>
    /\ pout[2] = 20

(***************************************************************************)
(* C9: the record serialize_unsized_value / archive_ref_root writes at P   *)
(* for the payload at T stores the offset T - P; decoding it at P gives T, *)
(* and with the buffer moved by any displacement d, decoding the same      *)
(* stored bytes at P + d gives T + d, where the payload's bytes are.       *)
(***************************************************************************)
Relocate(b, d) == [a \in d..(d + Len(b) - 1) |-> b[a - d + 1]]

PayloadLen(v) == IF v = "slice" THEN 4 ELSE ArchivedSize(v)

C9_PositionIndependence ==
    (ret.op \in {"serialize_unsized_value", "archive_ref_root"} /\ ret.err = "ok") =>
        LET P == ret.val
            T == log[LastIdx("serialize_unsized_ret")].at
            stored == SubSeq(buf, P + 1, P + 4)
        IN  /\ FromLE32(stored) = T - P
            /\ RelPtrDecode(P, stored) = T
            /\ \A d \in 0..MaxDisp :
                LET mem == Relocate(buf, d)
                    ptr == [i \in 1..4 |-> mem[P + d + i - 1]]
                    target == RelPtrDecode(P + d, ptr)
                IN  /\ ptr = stored
                    /\ target = T + d
                    /\ \A i \in 0..(PayloadLen(ret.arg) - 1) :
                        mem[target + i] = buf[T + i + 1]

\* a pointer backwards (negative offset) to a payload, from a shifted start
C9_Witness ==
    /\ Succeeded("serialize_unsized_value")
    /\ ret.arg = "slice"
    /\ ret.start = 1
    /\ FromLE32(SubSeq(buf, ret.val + 1, ret.val + 4)) < 0

(***************************************************************************)
(* C10: in serialize_value, serialize_unsized_value, archive_root and      *)
(* archive_ref_root, the step that fails is the last step the operation    *)
(* runs, the operation returns that step's error, and never succeeds: no   *)
(* resolve, write, seek or other fallible call follows the failure.        *)
(***************************************************************************)
C10_ErrorShortCircuit ==
    ret.op \in TopOps =>
        /\ \A j \in Steps("fail") :
            /\ j = Len(log)
            /\ ret.err = log[j].v
            /\ calls = failAt
        /\ ret.err \in {"IOFailure", "UnsizedMetadataFailure"} =>
            /\ Len(log) > 0
            /\ log[Len(log)].k = "fail"
        /\ (failAt # 0 /\ calls >= failAt) => ret.err # "ok"

\* the seek back or the header write of a root failed, after phase 1
C10_Witness ==
    /\ ret.op = "archive_ref_root"
    /\ ret.err = "UnsizedMetadataFailure"
    /\ Steps("serialize_unsized_ret") # {}
    /\ Steps("resolve_unsized") = {}

(***************************************************************************)
(* The sink on its own: write, pad and align from a fresh sink, pad with   *)
(* every argument up to one block of zeroes and MaxPad more.               *)
(***************************************************************************)
PadAny ==
    \E n \in 0..(ZEROES_LEN + MaxPad) : Running /\ Done(pad(Cur, n), "pad", "", n)

NextSink ==
    \/ Write
    \/ PadAny
    \/ Align

SpecSink == Init /\ [][NextSink]_vars

\* bytes the write steps of l stored
RECURSIVE Written(_)
Written(l) ==
    IF l = <<>> THEN 0
    ELSE (IF Head(l).k = "write" THEN Head(l).n ELSE 0) + Written(Tail(l))

AllZero(bytes) == \A i \in DOMAIN bytes : bytes[i] = 0

(***************************************************************************)
(* C11: a successful align(b), b a power of two, from position p leaves    *)
(* the cursor at the smallest multiple of b that is >= p and returns it;   *)
(* the bytes appended are exactly that many, fewer than b, none when p is  *)
(* a multiple of b already, and all zero.                                  *)
(***************************************************************************)
C11_Align ==
    Succeeded("align") =>
        LET b == ret.n
            p == ret.start
            m == CHOOSE x \in p..(p + b - 1) : x % b = 0
        IN  /\ pos = m
            /\ ret.val = m
            /\ Written(log) = m - p
            /\ m - p < b
            /\ p % b = 0 => Steps("write") = {}
            /\ \A j \in Steps("write") : AllZero(log[j].b)
            /\ Len(buf) >= m
            /\ \A i \in (p + 1)..m : buf[i] = 0

\* padding of three bytes to reach the boundary
C11_Witness ==
    /\ Succeeded("align")
    /\ ret.n = 4
    /\ ret.start % 4 = 1
    /\ pos = ret.start + 3

(***************************************************************************)
(* C12: a successful pad(n) has appended exactly n bytes, all zero, and    *)
(* moved the cursor by n, in writes of at most 16 bytes each; pad(0)       *)
(* writes nothing.                                                         *)
(***************************************************************************)
C12_Pad ==
    Succeeded("pad") =>
        /\ pos = ret.start + ret.n
        /\ Written(log) = ret.n
        /\ \A j \in 1..Len(log) :
            /\ log[j].k = "write"
            /\ log[j].n >= 1
            /\ log[j].n <= ZEROES_LEN
            /\ AllZero(log[j].b)
        /\ ret.n = 0 => log = <<>>
        /\ Len(buf) >= pos
        /\ \A i \in (ret.start + 1)..pos : buf[i] = 0

\* more than one block: two writes
C12_Witness ==
    /\ Succeeded("pad")
    /\ ret.n = ZEROES_LEN + 1
    /\ Len(log) = 2
    /\ ret.start = 1

(***************************************************************************)
(* C13: after every successful write, pad, align, serialize_value,         *)
(* serialize_unsized_value, archive_root or archive_ref_root the cursor    *)
(* equals the total number of bytes written so far and is not below where  *)
(* it stood before the operation.                                          *)
(***************************************************************************)
SinkOps == {"write", "pad", "align", "serialize_value", "serialize_unsized_value",
            "archive_root", "archive_ref_root"}

RECURSIVE Total(_)
Total(w) == IF w = <<>> THEN 0 ELSE Head(w) + Total(Tail(w))

C13_AppendOnlyPosition ==
    [][(nops' = nops + 1 /\ ret'.op \in SinkOps /\ ret'.err = "ok") =>
            /\ pos' >= pos
            /\ pos' = Total(wc')
      ]_vars

(***************************************************************************)
(* C14: in any sequence of successful operations on one sink no position   *)
(* is written twice: a byte of an archived representation, once written,   *)
(* is never overwritten.                                                   *)
(***************************************************************************)
C14_ArchivedImmutable ==
    ret.err = "ok" => \A i \in 1..Len(wc) : wc[i] <= 1

(***************************************************************************)
(* C15: in an operation archiving a tree of values through serialize_value *)
(* or archive_root, every call of resolve for a value comes after          *)
(* serialize of that value has returned, with the resolver it returned and *)
(* only seeking, aligning and padding in between; and inside that          *)
(* serialize every nested value's serialize has returned and its header    *)
(* has been resolved and written, at a position aligned for it.            *)
(***************************************************************************)
LastBefore(l, k, j) ==
    LET S == {i \in StepsIn(l, k) : i < j}
    IN  IF S = {} THEN 0 ELSE CHOOSE i \in S : \A x \in S : i >= x

Between(l, k, a, b) == Cardinality({i \in StepsIn(l, k) : a < i /\ i < b})

\* the call of serialize that the return at step r belongs to
Match(l, r) ==
    LET S == {i \in StepsIn(l, "serialize") :
                /\ i < r
                /\ Between(l, "serialize", i, r) = Between(l, "serialize_ret", i, r)}
    IN  IF S = {} THEN 0 ELSE CHOOSE i \in S : \A x \in S : i >= x

C15_Sequencing ==
    ret.op \in {"serialize_value", "archive_root"} =>
        \A j \in Steps("resolve") :
            LET r == LastBefore(log, "serialize_ret", j)
                i == Match(log, r)
            IN  /\ r > 0 /\ i > 0
                /\ log[i].v = log[j].v
                /\ log[r].v = log[j].v
                /\ log[r].b = log[j].b
                /\ \A k \in (r + 1)..(j - 1) : log[k].k \in {"align", "write", "seek"}
                /\ Between(log, "resolve", i, r) = Between(log, "serialize", i, r)
                /\ \A k \in (i + 1)..(r - 1) :
                    log[k].k = "serialize" =>
                        \E m \in (k + 1)..(r - 2) :
                            /\ log[m].k = "resolve"
                            /\ log[m].v = log[k].v
                            /\ LastBefore(log, "serialize_ret", m) > k
                            /\ log[m].at % ArchivedAlign(log[k].v) = 0
                            /\ log[m + 1].k = "write"
                            /\ log[m + 1].at = log[m].at
                            /\ log[m + 1].n = ArchivedSize(log[k].v)

\* a root two levels deep: three headers resolved, the root's last
C15_Witness ==
    /\ Succeeded("archive_root")
    /\ ret.arg = "node"
    /\ Cardinality(Steps("resolve")) = 3
    /\ log[LastIdx("resolve")].v = "node"

(***************************************************************************)
(* C16: a successful serialize_unsized_value writes the payload first      *)
(* (serialize_unsized returns its position, to), then serializes the       *)
(* metadata, then aligns for the relative pointer record, then resolves    *)
(* the record with base the cursor and target to and writes it; it returns *)
(* the record's position, and to is not above it.  A successful            *)
(* archive_ref_root runs payload then metadata in the same order, behind   *)
(* the forward seek, and writes the record at the reserved position, below *)
(* the payload.                                                            *)
(***************************************************************************)
C16_UnsizedStepOrder ==
    /\ Succeeded("serialize_unsized_value") =>
        LET v == ret.arg
            n == Len(log)
            u == LastIdx("serialize_unsized_ret")
            to == log[u].at
        IN  /\ log[1].k = "serialize_unsized" /\ log[1].v = v /\ log[1].at = ret.start
            /\ u > 1 /\ n >= u + 4
            /\ log[u].v = v
            /\ \E j \in 2..(u - 1) : log[j].k = "write"
            /\ Steps("serialize_metadata") = {u + 1}
            /\ log[u + 1].v = v
            /\ log[u + 2].k = "align" /\ log[u + 2].n = RelPtrAlign(v)
            /\ \A j \in (u + 3)..(n - 2) : log[j].k = "write" /\ AllZero(log[j].b)
            /\ Steps("resolve_unsized") = {n - 1}
            /\ log[n - 1].v = v
            /\ log[n - 1].at = ret.val
            /\ log[n - 1].n = to
            /\ log[n - 1].b = log[u + 1].b
            /\ log[n].k = "write" /\ log[n].at = ret.val /\ log[n].n = RelPtrSize(v)
            /\ log[n].b = resolve_unsized(v, ret.val, to, log[u + 1].b)
            /\ ret.val % RelPtrAlign(v) = 0
            /\ ret.start <= to /\ to <= ret.val
    /\ Succeeded("archive_ref_root") =>
        LET v == ret.arg
            n == Len(log)
            p == ret.val
            fwd == FirstIdx("seek")
            back == LastIdx("seek")
            u == LastIdx("serialize_unsized_ret")
            to == log[u].at
        IN  /\ 0 < fwd /\ log[fwd].at = p + RelPtrSize(v)
            /\ log[fwd + 1].k = "serialize_unsized" /\ log[fwd + 1].v = v
            /\ u > fwd + 1 /\ log[u].v = v
            /\ \E j \in (fwd + 2)..(u - 1) : log[j].k = "write"
            /\ Steps("serialize_metadata") = {u + 1}
            /\ back = u + 2 /\ log[back].at = p
            /\ n = u + 4
            /\ log[n - 1].k = "resolve_unsized"
            /\ log[n - 1].at = p
            /\ log[n - 1].n = to
            /\ log[n - 1].b = log[u + 1].b
            /\ log[n].k = "write" /\ log[n].at = p
            /\ log[n].b = resolve_unsized(v, p, to, log[u + 1].b)
            /\ p + RelPtrSize(v) <= to

\* a slice archived from a misaligned cursor: payload, metadata, padding, record
C16_Witness ==
    /\ Succeeded("serialize_unsized_value")
    /\ ret.arg = "slice"
    /\ ret.start = 1
    /\ log[LastIdx("serialize_unsized_ret")].at = 2
    /\ ret.val = 8

(***************************************************************************)
(* C17: in a build with debug assertions, resolve_aligned or               *)
(* resolve_unsized_aligned called with the cursor not on a multiple of the *)
(* header type's alignment trips the check at once: the call ends in a     *)
(* panic, resolve has not been computed and nothing has been written, so   *)
(* the sink's position and bytes are what they were before the call.       *)
(***************************************************************************)
C17_MisalignmentCheck ==
    [][(/\ nops' = nops + 1
        /\ ret'.op \in {"resolve_aligned", "resolve_unsized_aligned"}
        /\ debug_assertions
        /\ pos % (IF ret'.op = "resolve_aligned" THEN ArchivedAlign(ret'.arg)
                                                 ELSE RelPtrAlign(ret'.arg)) # 0)
        => /\ ret'.err = "panic"
           /\ log' = <<Ev("panic", ret'.op, pos, 0, <<>>)>>
           /\ pos' = pos
           /\ buf' = buf
           /\ wc' = wc
           /\ calls' = calls
      ]_vars

\* a two-byte-aligned header asked for at an odd position
C17_Witness ==
    /\ ret.op = "resolve_aligned"
    /\ ret.arg = "half"
    /\ ret.err = "panic"
    /\ ret.start % 2 = 1
    /\ pos = ret.start

(***************************************************************************)
(* C18: the map adapter loses insertion order: deserialize rebuilds the    *)
(* map in the archived iteration order, and for every map with at least    *)
(* two entries there is an archived iteration order under which the        *)
(* deserialized map iterates differently from the original.                *)
(***************************************************************************)
C18_MapOrderLoss ==
    /\ phase = "done" => iout = ArchivedIter(iarch)
    /\ Len(imap) >= 2 =>
        \E order \in Orders(Len(imap)) :
            IndexMap_deserialize(IndexMap_resolve(imap, 0, IndexMap_serialize(imap, order)))
                # imap

\* a two-entry map that came back with its entries swapped
C18_Witness ==
    /\ phase = "done"
    /\ Len(imap) = 2
    /\ iout = <<imap[2], imap[1]>>
    /\ iout # imap

(***************************************************************************)
(* C19: in a successful serialize_value or serialize_unsized_value every   *)
(* byte the call writes before its header (dependents, nested headers,     *)
(* padding) lies below the returned header position and not below where    *)
(* the call began; every position in a resolver is at most the position of *)
(* the header resolved with it; and the relative pointers in the header    *)
(* have offsets that are zero or negative.                                 *)
(***************************************************************************)
\* where the relative pointers sit in the header of v, as byte offsets
PtrOffsets(name, v) ==
    IF name = "serialize_unsized_value" THEN {0}
    ELSE CASE v = "str" -> {0}
           [] v = "node" -> {0, 4}
           [] OTHER -> {}

C19_DependentsPrecedeHeader ==
    (ret.op \in {"serialize_value", "serialize_unsized_value"} /\ ret.err = "ok") =>
        LET h == ret.val
        IN  /\ \A j \in Steps("write") :
                \/ log[j].at = h /\ j = Len(log)
                \/ ret.start <= log[j].at /\ log[j].at + log[j].n <= h
            /\ \A j \in Steps("resolve") :
                \A x \in Range(log[j].b) : x <= log[j].at
            /\ \A j \in Steps("resolve_unsized") : log[j].n <= log[j].at
            /\ \A o \in PtrOffsets(ret.op, ret.arg) :
                /\ Len(buf) >= h + o + 4
                /\ FromLE32(SubSeq(buf, h + o + 1, h + o + 4)) <= 0
                /\ RelPtrDecode(h, SubSeq(buf, h + o + 1, h + o + 4)) >= ret.start

\* a nested value behind a relative pointer: dependents, a nested header and
\* padding all written before the record
C19_Witness ==
    /\ Succeeded("serialize_unsized_value")
    /\ ret.arg = "node"
    /\ ret.start = 1
    /\ Cardinality(Steps("write")) >= 6
    /\ FromLE32(SubSeq(buf, ret.val + 1, ret.val + 4)) < 0

====
